---- MODULE Spec2Model ----
(***************************************************************************)
(* Model of namnsdag v3: the cache store (pkg/namnsdag/cache.go), the      *)
(* fetch client's result contract (pkg/namnsdag/namnsdag.go) and the       *)
(* refresh orchestrator loadOrFetchNames (cmd/root.go of v3).              *)
(*                                                                         *)
(* Time is counted in ticks; tick 0 is Go's zero time.Time, real instants  *)
(* are 1..MaxTime.  DayLen ticks make up the 24 hours of                   *)
(* time.Now().Truncate(24*time.Hour).                                      *)
(***************************************************************************)
EXTENDS Integers, Sequences, FiniteSets, TLC

VARIABLES
    file,   \* the cache file cache@v3.json on disk
    clock,  \* the wall clock, what time.Now() returns
    call,   \* what the last operation did and returned
    prev    \* summary of the operation before the last one

vars == <<file, clock, call, prev>>

----------------------------------------------------------------------------
(* Bounds of the model *)

(* the most names a store holds in the runs of the package's operations *)
MaxStored == 2

MaxTime == 4

(* 24*time.Hour, in ticks *)
DayLen == 2

----------------------------------------------------------------------------
(* Name records (pkg/namnsdag/namnsdag.go) *)

TypeName == "NAME"
TypeNewName == "NEW_NAME"
TypeUnofficial == "UNOFFICIAL"

Erik == [Name |-> "Erik", Month |-> 1, Day |-> 1, TypeOfName |-> TypeName]
Nya == [Name |-> "Nya", Month |-> 1, Day |-> 1, TypeOfName |-> TypeUnofficial]
Anna == [Name |-> "Anna", Month |-> 12, Day |-> 31, TypeOfName |-> TypeNewName]

(* a name whose classification is none of the three: the field was not in
   the JSON of the page *)
Tor == [Name |-> "Tor", Month |-> 1, Day |-> 1, TypeOfName |-> ""]

Names == {Erik, Nya, Anna}

(* Go's string order on the names that occur *)
NameOrder == <<"Anna", "Erik", "Nya", "Tor">>

NameRank(s) == CHOOSE i \in 1..Len(NameOrder) : NameOrder[i] = s

(* the less function of SortNames: month, then day, then name *)
NameLess(a, b) ==
    IF a.Month # b.Month THEN a.Month < b.Month
    ELSE IF a.Day # b.Day THEN a.Day < b.Day
    ELSE NameRank(a.Name) < NameRank(b.Name)

RECURSIVE InsertSorted(_, _)
InsertSorted(n, s) ==
    IF s = <<>> THEN <<n>>
    ELSE IF NameLess(n, Head(s)) THEN <<n>> \o s
    ELSE <<Head(s)>> \o InsertSorted(n, Tail(s))

RECURSIVE SortNames(_)
SortNames(names) ==
    IF names = <<>> THEN <<>>
    ELSE InsertSorted(Head(names), SortNames(Tail(names)))

----------------------------------------------------------------------------
(* Day of month and its text form (pkg/namnsdag/cache.go) *)

NewDoM(month, day) == [Day |-> day, Month |-> month]

DigitChar == <<"0", "1", "2", "3", "4", "5", "6", "7", "8", "9">>

IsDigit(c) == \E i \in 1..10 : DigitChar[i] = c

DigitVal(c) == (CHOOSE i \in 1..10 : DigitChar[i] = c) - 1

RECURSIVE Digits(_)
Digits(n) ==
    IF n < 10 THEN <<DigitChar[n + 1]>>
    ELSE Digits(n \div 10) \o <<DigitChar[(n % 10) + 1]>>

(* %d: no padding *)
Pad2_NoPad(n) == Digits(n)

(* %02d of a number >= 0 *)
Pad2(n) == IF n < 10 THEN <<"0">> \o Digits(n) ELSE Digits(n)

(* the text form with the day before the month *)
MarshalText_DayFirst(d) == Pad2(d.Day) \o <<"-">> \o Pad2(d.Month)

(* fmt.Appendf(nil, "%02d-%02d", d.Month, d.Day) *)
MarshalText(d) == Pad2(d.Month) \o <<"-">> \o Pad2(d.Day)

(* how many of the first two characters of text are digits: the run %02d reads *)
DigitRun(text) ==
    IF Len(text) >= 1 /\ IsDigit(text[1])
    THEN (IF Len(text) >= 2 /\ IsDigit(text[2]) THEN 2 ELSE 1)
    ELSE 0

NumberOf(text, n) ==
    IF n = 2 THEN 10 * DigitVal(text[1]) + DigitVal(text[2]) ELSE DigitVal(text[1])

(* the scan with its two targets exchanged: &d.Day, &d.Month *)
UnmarshalText_DayFirst(text) ==
    LET n1 == DigitRun(text)
        rest1 == SubSeq(text, n1 + 1, Len(text))
        rest2 == SubSeq(rest1, 2, Len(rest1))
        n2 == DigitRun(rest2)
    IN  IF n1 = 0 \/ rest1 = <<>> \/ Head(rest1) # "-" \/ n2 = 0
        THEN [ok |-> FALSE, dom |-> NewDoM(0, 0)]
        ELSE [ok |-> TRUE, dom |-> NewDoM(NumberOf(rest2, n2), NumberOf(text, n1))]

(* fmt.Sscanf(text, "%02d-%02d", &d.Month, &d.Day): at most two digits, a dash,
   at most two digits; input after that is not looked at *)
UnmarshalText(text) ==
    LET n1 == DigitRun(text)
        rest1 == SubSeq(text, n1 + 1, Len(text))
        rest2 == SubSeq(rest1, 2, Len(rest1))
        n2 == DigitRun(rest2)
    IN  IF n1 = 0 \/ rest1 = <<>> \/ Head(rest1) # "-" \/ n2 = 0
        THEN [ok |-> FALSE, dom |-> NewDoM(0, 0)]
        ELSE [ok |-> TRUE, dom |-> NewDoM(NumberOf(text, n1), NumberOf(rest2, n2))]

----------------------------------------------------------------------------
(* The Cache struct and its methods (pkg/namnsdag/cache.go) *)

EmptyMap == [d \in {} |-> <<>>]

(* a Go map value: nil, or a map from DoM to a list of names *)
NilMap == [nil |-> TRUE, m |-> EmptyMap]

MakeMap(m) == [nil |-> FALSE, m |-> m]

(* Cache{} *)
ZeroCache == [ETag |-> "", UpdatedAt |-> 0, NamesPerDay |-> NilMap]

(* the key built with month and day exchanged: NewDoM(name.Day, name.Month) *)
AppendName_SwappedKey(m, name) ==
    LET dom == NewDoM(name.Day, name.Month)
    IN  [d \in DOMAIN m \cup {dom} |->
            IF d = dom
            THEN (IF d \in DOMAIN m THEN m[d] ELSE <<>>) \o <<name>>
            ELSE m[d]]

(* the name put in front of its bucket *)
AppendName_InFront(m, name) ==
    LET dom == NewDoM(name.Month, name.Day)
    IN  [d \in DOMAIN m \cup {dom} |->
            IF d = dom
            THEN <<name>> \o (IF d \in DOMAIN m THEN m[d] ELSE <<>>)
            ELSE m[d]]

(* c.NamesPerDay[dom] = append(c.NamesPerDay[dom], name) *)
AppendName(m, name) ==
    LET dom == NewDoM(name.Month, name.Day)
    IN  [d \in DOMAIN m \cup {dom} |->
            IF d = dom
            THEN (IF d \in DOMAIN m THEN m[d] ELSE <<>>) \o <<name>>
            ELSE m[d]]

RECURSIVE AppendAll(_, _)
AppendAll(m, names) ==
    IF names = <<>> THEN m
    ELSE AppendAll(AppendName(m, Head(names)), Tail(names))

AddNames(c, names) ==
    LET m0 == IF c.NamesPerDay.nil THEN EmptyMap ELSE c.NamesPerDay.m
    IN  [c EXCEPT !.NamesPerDay = MakeMap(AppendAll(m0, names))]

(* SetNames without the reset of the map: the old buckets stay *)
SetNames_KeepOld(c, names) == AddNames(c, names)

SetNames(c, names) == AddNames([c EXCEPT !.NamesPerDay = NilMap], names)

(* len(map): 0 for a nil map *)
MapLen(nm) == IF nm.nil THEN 0 ELSE Cardinality(DOMAIN nm.m)

----------------------------------------------------------------------------
(* The cache file and its JSON form (LoadCache, SaveCache, ClearCache) *)

ErrNone == "nil"

NullObject == [null |-> TRUE, obj |-> EmptyMap]

(* a file that holds no Cache document *)
PlainFile(kind) ==
    [kind |-> kind, etag |-> "", updatedAt |-> 0, namesPerDay |-> NullObject]

AbsentFile == PlainFile("absent")

(* content that is not a JSON document of any kind: truncated, empty, garbage *)
CorruptFile == PlainFile("corrupt")

(* a well-formed JSON object with none of the Cache fields, such as a file
   in the schema of version 1: {"day": ..., "names": [...]} *)
ForeignFile == PlainFile("foreign")

(* a file that is there and that os.ReadFile cannot read *)
UnreadableFile == PlainFile("unreadable")

(* json.Encoder.Encode(cache): map keys are written with DoM.MarshalText *)
EncodeCache(c) ==
    LET m == c.NamesPerDay.m
        keys == {MarshalText(d) : d \in DOMAIN m}
    IN  [kind |-> "cache",
         etag |-> c.ETag,
         updatedAt |-> c.UpdatedAt,
         namesPerDay |->
            [null |-> c.NamesPerDay.nil,
             obj |-> [t \in keys |-> m[CHOOSE d \in DOMAIN m : MarshalText(d) = t]]]]

(* json.Unmarshal(fileBytes, &cache): map keys are read with DoM.UnmarshalText,
   a key that does not scan fails the whole document *)
DecodeCache(f) ==
    LET obj == f.namesPerDay.obj
        doms == {UnmarshalText(t).dom : t \in DOMAIN obj}
    IN  IF \E t \in DOMAIN obj : ~UnmarshalText(t).ok
        THEN [cache |-> ZeroCache, err |-> "parse"]
        ELSE [cache |->
                [ETag |-> f.etag,
                 UpdatedAt |-> f.updatedAt,
                 NamesPerDay |->
                    IF f.namesPerDay.null THEN NilMap
                    ELSE MakeMap([d \in doms |->
                            obj[CHOOSE t \in DOMAIN obj : UnmarshalText(t).dom = d]])],
              err |-> ErrNone]

(* a file that cannot be read taken for no file at all *)
LoadCache_ReadErrorIsEmpty(f) ==
    IF f.kind \in {"absent", "unreadable"} THEN [cache |-> ZeroCache, err |-> ErrNone]
    ELSE IF f.kind = "corrupt" THEN [cache |-> ZeroCache, err |-> "parse"]
    ELSE IF f.kind = "foreign" THEN [cache |-> ZeroCache, err |-> ErrNone]
    ELSE DecodeCache(f)

(* no test of os.IsNotExist: a missing file is a read error like any other *)
LoadCache_AbsentIsError(f) ==
    IF f.kind \in {"absent", "unreadable"} THEN [cache |-> ZeroCache, err |-> "read"]
    ELSE IF f.kind = "corrupt" THEN [cache |-> ZeroCache, err |-> "parse"]
    ELSE IF f.kind = "foreign" THEN [cache |-> ZeroCache, err |-> ErrNone]
    ELSE DecodeCache(f)

LoadCache(f) ==
    IF f.kind = "absent" THEN [cache |-> ZeroCache, err |-> ErrNone]
    ELSE IF f.kind = "unreadable" THEN [cache |-> ZeroCache, err |-> "read"]
    ELSE IF f.kind = "corrupt" THEN [cache |-> ZeroCache, err |-> "parse"]
    ELSE IF f.kind = "foreign" THEN [cache |-> ZeroCache, err |-> ErrNone]
    ELSE DecodeCache(f)

(* what can happen to a SaveCache: "ok"; "nocreate", os.MkdirAll or os.Create
   fails and the file is as before; "nowrite", os.Create has truncated the
   file and the write of the document fails or is cut short *)
SaveOutcomes == {"ok", "nocreate", "nowrite"}

(* no stamp for the zero time *)
StampCache_Never(cache, now) == cache

StampCache(cache, now) ==
    IF cache.UpdatedAt = 0 THEN [cache EXCEPT !.UpdatedAt = now] ELSE cache

SaveCache(f, cache, now, outcome) ==
    IF outcome = "nocreate" THEN [file |-> f, err |-> "save"]
    ELSE IF outcome = "nowrite" THEN [file |-> CorruptFile, err |-> "save"]
    ELSE [file |-> EncodeCache(StampCache(cache, now)), err |-> ErrNone]

(* no test of os.IsNotExist: nothing to remove is a success *)
ClearCache_AbsentIsSuccess(f, outcome) ==
    IF f.kind = "absent" THEN [file |-> f, err |-> ErrNone]
    ELSE IF outcome = "fail" THEN [file |-> f, err |-> "remove"]
    ELSE [file |-> AbsentFile, err |-> ErrNone]

(* os.Remove: "ok" or, for a file that is there, "fail" *)
ClearCache(f, outcome) ==
    IF f.kind = "absent" THEN [file |-> f, err |-> "ErrCacheAlreadyCleared"]
    ELSE IF outcome = "fail" THEN [file |-> f, err |-> "remove"]
    ELSE [file |-> AbsentFile, err |-> ErrNone]

----------------------------------------------------------------------------
(* The fetch client (pkg/namnsdag/namnsdag.go) *)

(* the etag headers the web site sends *)
ETags == {"abc", "xyz"}

ErrHTTPNotModified == "ErrHTTPNotModified"

(* the lists of names the page of the web site can carry, in page order *)
Pages == {<<>>, <<Erik>>, <<Nya, Erik>>, <<Anna, Nya>>}

(* what the web site can answer: the page with its names and etag header,
   304 not modified, or anything that makes the fetch fail *)
ServerResponses ==
    {[status |-> "ok", names |-> ns, etag |-> e] : ns \in Pages, e \in ETags}
    \cup {[status |-> "notmodified", names |-> <<>>, etag |-> ""],
          [status |-> "failed", names |-> <<>>, etag |-> ""]}

(* the If-None-Match header of the request: left out for the empty etag *)
IfNoneMatch(etag) == IF etag # "" THEN <<etag>> ELSE <<>>

fetchDocument(etag, srv) ==
    IF srv.status = "notmodified"
    THEN [names |-> <<>>, etag |-> "", err |-> ErrHTTPNotModified]
    ELSE IF srv.status = "failed"
    THEN [names |-> <<>>, etag |-> "", err |-> "http"]
    ELSE [names |-> srv.names, etag |-> srv.etag, err |-> ErrNone]

fetchAllNextJSData(etag, srv) ==
    LET doc == fetchDocument(etag, srv)
    IN  IF doc.err = ErrHTTPNotModified
        THEN [names |-> <<>>, etag |-> etag, err |-> doc.err]
        ELSE IF doc.err # ErrNone
        THEN [names |-> <<>>, etag |-> "", err |-> doc.err]
        ELSE doc

Fetch(req, srv) ==
    LET data == fetchAllNextJSData(req.ETag, srv)
    IN  IF data.err = ErrHTTPNotModified
        THEN [Names |-> <<>>, ETag |-> data.etag, err |-> data.err]
        ELSE IF data.err # ErrNone
        THEN [Names |-> <<>>, ETag |-> "", err |-> data.err]
        ELSE [Names |-> SortNames(data.names), ETag |-> data.etag, err |-> ErrNone]

----------------------------------------------------------------------------
(* The refresh orchestrator: loadOrFetchNames (cmd/root.go) *)

(* a day start that is the instant itself: no truncation *)
Truncate_None(t) == t

(* t.Truncate(24*time.Hour): down to a multiple of a day since the zero time *)
Truncate(t) == t - (t % DayLen)

(* Before that also holds of equal instants *)
Before_OrEqual(t, u) == t <= u

(* t.Before(u) *)
Before(t, u) == t < u

(* a cache taken for valid when it was ever stamped *)
isCacheValid_Stamped(cache) == cache.UpdatedAt # 0

(* isCacheValid := len(cache.NamesPerDay) > 0 *)
isCacheValid(cache) == MapLen(cache.NamesPerDay) > 0

(* outdated by age alone, the validity of the cache not looked at *)
isCacheOutdated_AgeOnly(cache, now) == Before(cache.UpdatedAt, Truncate(now))

isCacheOutdated(cache, now) ==
    ~isCacheValid(cache) \/ Before(cache.UpdatedAt, Truncate(now))

(* a request that never carries a token *)
NewRequest_NeverToken(cache) == [ETag |-> ""]

(* a request that always carries the token of the cache *)
NewRequest_AlwaysToken(cache) == [ETag |-> cache.ETag]

(* req := namnsdag.Request{ETag: cache.ETag}; if !isCacheValid { req.ETag = "" } *)
NewRequest(cache) == [ETag |-> IF ~isCacheValid(cache) THEN "" ELSE cache.ETag]

Has(steps, step) == \E i \in 1..Len(steps) : steps[i] = step

NoRequest == <<>>

NoResponse == [status |-> "none", names |-> <<>>, etag |-> ""]

(* what one run of loadOrFetchNames did: the values it returns (ret, err),
   the file it leaves, the cache it worked on when it loaded (loaded) and
   when it returned (store), the token of its request (a sequence, empty
   when no request was made), the answer it got, and its steps in order *)
Outcome(ret, err, f, loaded, store, req, srv, steps) ==
    [ret |-> ret, err |-> err, file |-> f, loaded |-> loaded, store |-> store,
     req |-> req, srv |-> srv, steps |-> steps]

(* a failed save that returns no mapping, as version 2 did *)
Refresh_DropOnSaveError(f, cache, resp, srv, req, t2, saveOutcome, steps) ==
    LET fresh == [SetNames(cache, resp.Names) EXCEPT !.UpdatedAt = t2, !.ETag = resp.ETag]
        saved == SaveCache(f, fresh, t2, saveOutcome)
    IN  Outcome(IF saved.err # ErrNone THEN NilMap ELSE fresh.NamesPerDay,
                saved.err, saved.file, cache, fresh,
                <<req.ETag>>, srv, steps \o <<"fetch", "mutate", "save">>)

(* lines 191-198: the fetch gave names *)
Refresh(f, cache, resp, srv, req, t2, saveOutcome, steps) ==
    LET fresh == [SetNames(cache, resp.Names) EXCEPT !.UpdatedAt = t2, !.ETag = resp.ETag]
        saved == SaveCache(f, fresh, t2, saveOutcome)
    IN  Outcome(fresh.NamesPerDay, saved.err, saved.file, cache, fresh,
                <<req.ETag>>, srv, steps \o <<"fetch", "mutate", "save">>)

(* "not modified" taken as a refresh: the cache is stamped and saved again *)
FetchAndStore_Touch(f, cache, t2, srv, saveOutcome, steps) ==
    LET req == NewRequest(cache)
        resp == Fetch(req, srv)
        touched == [cache EXCEPT !.UpdatedAt = t2]
    IN  IF resp.err = ErrHTTPNotModified /\ isCacheValid(cache)
        THEN Outcome(cache.NamesPerDay, ErrNone, SaveCache(f, touched, t2, "ok").file,
                     cache, touched, <<req.ETag>>, srv, steps \o <<"fetch", "save">>)
        ELSE IF resp.err # ErrNone
        THEN Outcome(cache.NamesPerDay, "fetch", f, cache, cache,
                     <<req.ETag>>, srv, steps \o <<"fetch">>)
        ELSE Refresh(f, cache, resp, srv, req, t2, saveOutcome, steps)

(* a failed fetch that returns no mapping at all, as version 2 did *)
FetchAndStore_DropCache(f, cache, t2, srv, saveOutcome, steps) ==
    LET req == NewRequest(cache)
        resp == Fetch(req, srv)
    IN  IF resp.err = ErrHTTPNotModified /\ isCacheValid(cache)
        THEN Outcome(cache.NamesPerDay, ErrNone, f, cache, cache,
                     <<req.ETag>>, srv, steps \o <<"fetch">>)
        ELSE IF resp.err # ErrNone
        THEN Outcome(NilMap, "fetch", f, cache, cache,
                     <<req.ETag>>, srv, steps \o <<"fetch">>)
        ELSE Refresh(f, cache, resp, srv, req, t2, saveOutcome, steps)

(* a failed fetch that removes the cache file *)
FetchAndStore_ClearOnError(f, cache, t2, srv, saveOutcome, steps) ==
    LET req == NewRequest(cache)
        resp == Fetch(req, srv)
    IN  IF resp.err = ErrHTTPNotModified /\ isCacheValid(cache)
        THEN Outcome(cache.NamesPerDay, ErrNone, f, cache, cache,
                     <<req.ETag>>, srv, steps \o <<"fetch">>)
        ELSE IF resp.err # ErrNone
        THEN Outcome(cache.NamesPerDay, "fetch", AbsentFile, cache, cache,
                     <<req.ETag>>, srv, steps \o <<"fetch">>)
        ELSE Refresh(f, cache, resp, srv, req, t2, saveOutcome, steps)

(* "not modified" accepted whatever the cache is *)
FetchAndStore_AcceptNotModified(f, cache, t2, srv, saveOutcome, steps) ==
    LET req == NewRequest(cache)
        resp == Fetch(req, srv)
    IN  IF resp.err = ErrHTTPNotModified
        THEN Outcome(cache.NamesPerDay, ErrNone, f, cache, cache,
                     <<req.ETag>>, srv, steps \o <<"fetch">>)
        ELSE IF resp.err # ErrNone
        THEN Outcome(cache.NamesPerDay, "fetch", f, cache, cache,
                     <<req.ETag>>, srv, steps \o <<"fetch">>)
        ELSE Refresh(f, cache, resp, srv, req, t2, saveOutcome, steps)

(* lines 176-198: the cache is outdated and fetching is allowed *)
FetchAndStore(f, cache, t2, srv, saveOutcome, steps) ==
    LET req == NewRequest(cache)
        resp == Fetch(req, srv)
    IN  IF resp.err = ErrHTTPNotModified /\ isCacheValid(cache)
        THEN Outcome(cache.NamesPerDay, ErrNone, f, cache, cache,
                     <<req.ETag>>, srv, steps \o <<"fetch">>)
        ELSE IF resp.err # ErrNone
        THEN Outcome(cache.NamesPerDay, "fetch", f, cache, cache,
                     <<req.ETag>>, srv, steps \o <<"fetch">>)
        ELSE Refresh(f, cache, resp, srv, req, t2, saveOutcome, steps)

(* the age of the cache tested before its validity under --no-fetch *)
Decide_AgeFirst(f, cache, noFetch, t1, t2, srv, saveOutcome, steps) ==
    IF isCacheOutdated(cache, t1) /\ noFetch
    THEN Outcome(NilMap, "nodata", f, cache, cache, NoRequest, NoResponse, steps)
    ELSE IF isCacheValid(cache) /\ noFetch
    THEN Outcome(cache.NamesPerDay, ErrNone, f, cache, cache, NoRequest, NoResponse, steps)
    ELSE IF ~isCacheOutdated(cache, t1)
    THEN Outcome(cache.NamesPerDay, ErrNone, f, cache, cache, NoRequest, NoResponse, steps)
    ELSE FetchAndStore(f, cache, t2, srv, saveOutcome, steps)

(* a cache hit that stamps the cache with the time of the run and saves it *)
Decide_TouchOnHit(f, cache, noFetch, t1, t2, srv, saveOutcome, steps) ==
    IF isCacheValid(cache) /\ noFetch
    THEN Outcome(cache.NamesPerDay, ErrNone, f, cache, cache, NoRequest, NoResponse, steps)
    ELSE IF isCacheOutdated(cache, t1) /\ noFetch
    THEN Outcome(NilMap, "nodata", f, cache, cache, NoRequest, NoResponse, steps)
    ELSE IF ~isCacheOutdated(cache, t1)
    THEN Outcome(cache.NamesPerDay, ErrNone,
                 SaveCache(f, [cache EXCEPT !.UpdatedAt = t1], t1, "ok").file,
                 cache, cache, NoRequest, NoResponse, steps)
    ELSE FetchAndStore(f, cache, t2, srv, saveOutcome, steps)

(* lines 162-199: after the cache is loaded, or left empty under --no-cache *)
Decide(f, cache, noFetch, t1, t2, srv, saveOutcome, steps) ==
    IF isCacheValid(cache) /\ noFetch
    THEN Outcome(cache.NamesPerDay, ErrNone, f, cache, cache, NoRequest, NoResponse, steps)
    ELSE IF isCacheOutdated(cache, t1) /\ noFetch
    THEN Outcome(NilMap, "nodata", f, cache, cache, NoRequest, NoResponse, steps)
    ELSE IF ~isCacheOutdated(cache, t1)
    THEN Outcome(cache.NamesPerDay, ErrNone, f, cache, cache, NoRequest, NoResponse, steps)
    ELSE FetchAndStore(f, cache, t2, srv, saveOutcome, steps)

(* no test of the two flags together *)
loadOrFetchNames_NoFlagTest(f, noCache, noFetch, t1, t2, srv, saveOutcome) ==
    IF noCache
    THEN Decide(f, ZeroCache, noFetch, t1, t2, srv, saveOutcome, <<>>)
    ELSE LET c == LoadCache(f)
         IN  IF c.err # ErrNone
             THEN Outcome(NilMap, "load", f, ZeroCache, ZeroCache,
                          NoRequest, NoResponse, <<"load">>)
             ELSE Decide(f, c.cache, noFetch, t1, t2, srv, saveOutcome, <<"load">>)

(* the cache loaded also under --no-cache *)
loadOrFetchNames_AlwaysLoad(f, noCache, noFetch, t1, t2, srv, saveOutcome) ==
    IF noCache /\ noFetch
    THEN Outcome(NilMap, "config", f, ZeroCache, ZeroCache, NoRequest, NoResponse, <<>>)
    ELSE LET c == LoadCache(f)
         IN  IF c.err # ErrNone
             THEN Outcome(NilMap, "load", f, ZeroCache, ZeroCache,
                          NoRequest, NoResponse, <<"load">>)
             ELSE Decide(f, c.cache, noFetch, t1, t2, srv, saveOutcome, <<"load">>)

(* t1 is time.Now() of line 167, t2 that of line 193 *)
loadOrFetchNames(f, noCache, noFetch, t1, t2, srv, saveOutcome) ==
    IF noCache /\ noFetch
    THEN Outcome(NilMap, "config", f, ZeroCache, ZeroCache, NoRequest, NoResponse, <<>>)
    ELSE IF noCache
    THEN Decide(f, ZeroCache, noFetch, t1, t2, srv, saveOutcome, <<>>)
    ELSE LET c == LoadCache(f)
         IN  IF c.err # ErrNone
             THEN Outcome(NilMap, "load", f, ZeroCache, ZeroCache,
                          NoRequest, NoResponse, <<"load">>)
             ELSE Decide(f, c.cache, noFetch, t1, t2, srv, saveOutcome, <<"load">>)

----------------------------------------------------------------------------
(* The state machine: runs of the command, one after another, and what the
   rest of the system does to the cache file between them *)

NoOutcome ==
    Outcome(NilMap, ErrNone, AbsentFile, ZeroCache, ZeroCache, NoRequest, NoResponse, <<>>)

(* the record of an operation: which one, its inputs, the file before it *)
Record(op, noCache, noFetch, now, pre, out) ==
    [op |-> op, noCache |-> noCache, noFetch |-> noFetch, now |-> now,
     pre |-> pre, out |-> out]

(* a run that fetched the names and saved them *)
Refreshed(c) ==
    c.op = "resolve" /\ c.out.err = ErrNone /\ Has(c.out.steps, "save")

(* a ClearCache that removed the file *)
Cleared(c) == c.op = "clear" /\ c.out.err = ErrNone

(* a run that was answered "not modified" and served its cache *)
KeptOnNotModified(c) ==
    c.op = "resolve" /\ c.out.err = ErrNone /\ c.out.srv.status = "notmodified"

NoSummary ==
    [refreshed |-> FALSE, flags |-> FALSE, ret |-> NilMap, at |-> 0,
     was |-> "other", token |-> ""]

(* what is remembered of the operation before the last one: whether it was
   a run that refreshed the cache, and then whether it had a flag set, the
   mapping it returned and the time it stamped on the cache; whether it was
   a ClearCache that removed the file; whether it was a run that served its
   cache on "not modified", and then the token of its request *)
Summary(c) ==
    IF Refreshed(c)
    THEN [refreshed |-> TRUE, flags |-> c.noCache \/ c.noFetch,
          ret |-> c.out.ret, at |-> c.out.store.UpdatedAt,
          was |-> "refresh", token |-> ""]
    ELSE IF Cleared(c) THEN [NoSummary EXCEPT !.was = "clear"]
    ELSE IF KeptOnNotModified(c)
    THEN [NoSummary EXCEPT !.was = "notmodified", !.token = c.out.req[1]]
    ELSE NoSummary

Init ==
    /\ file = AbsentFile
    /\ clock = 1
    /\ call = Record("init", FALSE, FALSE, 0, AbsentFile, NoOutcome)
    /\ prev = NoSummary

(* the inputs one run can meet: the answer of the web site matters only when
   a request is made, the second reading of the clock and the fate of the
   save only when the answer carries names *)
Answers(f, noCache, noFetch, t1) ==
    IF Has(loadOrFetchNames(f, noCache, noFetch, t1, t1, NoResponse, "ok").steps, "fetch")
    THEN ServerResponses
    ELSE {NoResponse}

SaveFates(srv) == IF srv.status = "ok" THEN SaveOutcomes ELSE {"ok"}

(* the clock when it is read again: no tick or one tick later *)
NextTimes(t) == {u \in {t, t + 1} : u <= MaxTime}

LaterTimes(srv, t1) == IF srv.status = "ok" THEN NextTimes(t1) ELSE {t1}

(* one run of the command; t1 - clock is the time gone by since the last run *)
Resolve ==
    \E noCache \in BOOLEAN, noFetch \in BOOLEAN, t1 \in NextTimes(clock) :
        \E srv \in Answers(file, noCache, noFetch, t1) :
            \E saveOutcome \in SaveFates(srv), t2 \in LaterTimes(srv, t1) :
                LET out == loadOrFetchNames(file, noCache, noFetch, t1, t2, srv, saveOutcome)
                IN  /\ file' = out.file
                    /\ clock' = t2
                    /\ call' = Record("resolve", noCache, noFetch, t1, file, out)
                    /\ prev' = Summary(call)

(* namnsdag.ClearCache() *)
Clear ==
    \E outcome \in {"ok", "fail"} :
        LET r == ClearCache(file, outcome)
        IN  /\ file' = r.file
            /\ call' = Record("clear", FALSE, FALSE, 0, file,
                              [NoOutcome EXCEPT !.err = r.err, !.file = r.file])
            /\ prev' = Summary(call)
            /\ UNCHANGED clock

(* a cache document written by hand, with names and a token and without the
   updatedAt field: it loads with the zero time *)
HandMadeFile ==
    EncodeCache([ETag |-> "abc", UpdatedAt |-> 0,
                 NamesPerDay |-> MakeMap(AppendAll(EmptyMap, <<Erik>>))])

(* the cache file is damaged, replaced by a file of another schema or by a
   document written by hand, or made unreadable, by something that is not
   this program *)
Damage ==
    \E f \in {CorruptFile, ForeignFile, UnreadableFile, HandMadeFile} :
        /\ file' = f
        /\ call' = Record("damage", FALSE, FALSE, 0, file, [NoOutcome EXCEPT !.file = f])
        /\ prev' = Summary(call)
        /\ UNCHANGED clock

Next == Resolve \/ Clear \/ Damage

Spec == Init /\ [][Next]_vars

----------------------------------------------------------------------------
(* Presentation: the names of a day (cmd/root.go) *)

(* a filter that keeps the names of classification NAME only *)
RECURSIVE filterOnlyOfficial_OnlyNames(_)
filterOnlyOfficial_OnlyNames(names) ==
    IF names = <<>> THEN <<>>
    ELSE IF Head(names).TypeOfName = TypeName
    THEN <<Head(names)>> \o filterOnlyOfficial_OnlyNames(Tail(names))
    ELSE filterOnlyOfficial_OnlyNames(Tail(names))

RECURSIVE filterOnlyOfficial(_)
filterOnlyOfficial(names) ==
    IF names = <<>> THEN <<>>
    ELSE IF Head(names).TypeOfName # TypeUnofficial
    THEN <<Head(names)>> \o filterOnlyOfficial(Tail(names))
    ELSE filterOnlyOfficial(Tail(names))

(* namesPerDay[dom]: the empty list for a key that is not there, and for the
   nil map *)
MapIndex(nm, dom) ==
    IF ~nm.nil /\ dom \in DOMAIN nm.m THEN nm.m[dom] ELSE <<>>

namesForToday(namesPerDay, dom, noUnofficial) ==
    LET names == MapIndex(namesPerDay, dom)
    IN  IF noUnofficial THEN filterOnlyOfficial(names) ELSE names

(* the lines the command prints, all of them on the standard output *)
StatusLine == [line |-> "status", names |-> <<>>, err |-> ErrNone]

(* writeNames: the names of the day, or "no names found for today" *)
writeNames(names) == [line |-> "names", names |-> names, err |-> ErrNone]

writeError(err) == [line |-> "error", names |-> <<>>, err |-> err]

(* a run that shows no names when there is an error *)
RunE_HideOnError(namesPerDay, err, dom, noUnofficial) ==
    IF err # ErrNone
    THEN [lines |-> <<writeError(err)>>, exit |-> 1]
    ELSE [lines |-> <<writeNames(namesForToday(namesPerDay, dom, noUnofficial))>>,
          exit |-> 0]

(* rootCmd.RunE from the call of loadOrFetchNames on: namesPerDay and err are
   what it returned, dom the day asked for *)
RunE(namesPerDay, err, dom, noUnofficial) ==
    IF err # ErrNone
    THEN [lines |->
            (IF ~namesPerDay.nil
             THEN <<StatusLine,
                    writeNames(namesForToday(namesPerDay, dom, noUnofficial))>>
             ELSE <<>>)
            \o <<writeError(err)>>,
          exit |-> 1]
    ELSE [lines |-> <<writeNames(namesForToday(namesPerDay, dom, noUnofficial))>>,
          exit |-> 0]

----------------------------------------------------------------------------
(* The operations of package namnsdag on a Cache value that a program holds,
   one at a time: a second state machine over the same variables.  Here call
   records the operation, its list of names, the Cache value before and
   after it, and its error. *)

StoreRecord(op, names, old, store, err) ==
    [op |-> op, names |-> names, before |-> old, store |-> store, err |-> err]

(* the number of names in a map *)
RECURSIVE Stored(_)
Stored(m) ==
    IF DOMAIN m = {} THEN 0
    ELSE LET d == CHOOSE x \in DOMAIN m : TRUE
         IN  Len(m[d]) + Stored([x \in DOMAIN m \ {d} |-> m[x]])

StoreInit ==
    /\ file = AbsentFile
    /\ clock = 1
    /\ call = StoreRecord("new", <<>>, ZeroCache, ZeroCache, ErrNone)
    /\ prev = NoSummary

(* cache.SetNames(names) *)
StoreSetNames ==
    \E names \in Pages :
        /\ Len(names) <= MaxStored
        /\ call' = StoreRecord("SetNames", names, call.store,
                               SetNames(call.store, names), ErrNone)
        /\ UNCHANGED <<file, clock, prev>>

(* cache.AddNames(names) *)
StoreAddNames ==
    \E names \in Pages :
        /\ Stored(call.store.NamesPerDay.m) + Len(names) <= MaxStored
        /\ call' = StoreRecord("AddNames", names, call.store,
                               AddNames(call.store, names), ErrNone)
        /\ UNCHANGED <<file, clock, prev>>

(* cache.UpdatedAt = time.Now(); cache.ETag = etag *)
StoreStamp ==
    \E etag \in ETags :
        /\ call' = StoreRecord("Stamp", <<>>, call.store,
                               [call.store EXCEPT !.UpdatedAt = clock, !.ETag = etag],
                               ErrNone)
        /\ UNCHANGED <<file, clock, prev>>

(* namnsdag.SaveCache(cache): the Cache is passed by value, the caller's
   value is as before *)
StoreSave ==
    \E outcome \in SaveOutcomes, t \in NextTimes(clock) :
        LET r == SaveCache(file, call.store, t, outcome)
        IN  /\ file' = r.file
            /\ clock' = t
            /\ call' = StoreRecord("SaveCache", <<>>, call.store, call.store, r.err)
            /\ UNCHANGED prev

(* cache, err = namnsdag.LoadCache() *)
StoreLoad ==
    LET r == LoadCache(file)
    IN  /\ call' = StoreRecord("LoadCache", <<>>, call.store, r.cache, r.err)
        /\ UNCHANGED <<file, clock, prev>>

StoreNext == StoreSetNames \/ StoreAddNames \/ StoreStamp \/ StoreSave \/ StoreLoad

StoreSpec == StoreInit /\ [][StoreNext]_vars

----------------------------------------------------------------------------
(* The text form of the day keys, one key at a time: a third state machine
   over the same variables.  Here call holds the key, its text once it is
   marshalled, and what the text scans back to. *)

(* time.Month and the days of a month *)
Months == 1..12

DaysOfMonth == 1..31

DoMs == {NewDoM(m, d) : m \in Months, d \in DaysOfMonth}

DoMRecord(op, dom, text, back) == [op |-> op, dom |-> dom, text |-> text, back |-> back]

NotScanned == [ok |-> FALSE, dom |-> NewDoM(0, 0)]

DoMInit ==
    /\ file = AbsentFile
    /\ clock = 1
    /\ prev = NoSummary
    /\ call \in {DoMRecord("NewDoM", k, <<>>, NotScanned) : k \in DoMs}

(* text, _ := d.MarshalText() *)
DoMMarshal ==
    /\ call.op = "NewDoM"
    /\ call' = DoMRecord("MarshalText", call.dom, MarshalText(call.dom), NotScanned)
    /\ UNCHANGED <<file, clock, prev>>

(* err := d.UnmarshalText(text) *)
DoMUnmarshal ==
    /\ call.op = "MarshalText"
    /\ call' = DoMRecord("UnmarshalText", call.dom, call.text, UnmarshalText(call.text))
    /\ UNCHANGED <<file, clock, prev>>

DoMNext == DoMMarshal \/ DoMUnmarshal

DoMSpec == DoMInit /\ [][DoMNext]_vars

----------------------------------------------------------------------------
(* The names shown for a day, from the page to the selection: a fourth state
   machine over the same variables.  Here call holds the names of the page,
   the day asked for and the --no-unofficial flag, then the names as Fetch
   delivers them, then the selection of namesForToday. *)

(* the most names on a page *)
MaxPage == 3

RECURSIVE SeqsUpTo(_, _)
SeqsUpTo(S, n) ==
    IF n = 0 THEN {<<>>}
    ELSE LET shorter == SeqsUpTo(S, n - 1)
         IN  shorter \cup {<<x>> \o s : x \in S, s \in {t \in shorter : Len(t) = n - 1}}

ShowPages == SeqsUpTo({Erik, Nya, Anna, Tor}, MaxPage)

(* the days asked for: days with names and a day without *)
ShowDays == {NewDoM(1, 1), NewDoM(12, 31), NewDoM(1, 12)}

ShowRecord(op, page, dom, noUnofficial, fetched, shown) ==
    [op |-> op, page |-> page, dom |-> dom, noUnofficial |-> noUnofficial,
     fetched |-> fetched, shown |-> shown]

ShowInit ==
    /\ file = AbsentFile
    /\ clock = 1
    /\ prev = NoSummary
    /\ call \in {ShowRecord("page", page, dom, nu, <<>>, <<>>) :
                    page \in ShowPages, dom \in ShowDays, nu \in BOOLEAN}

(* resp, err := namnsdag.Fetch(req) *)
ShowFetch ==
    /\ call.op = "page"
    /\ \E etag \in ETags :
        LET resp == Fetch([ETag |-> ""], [status |-> "ok", names |-> call.page, etag |-> etag])
        IN  call' = [call EXCEPT !.op = "Fetch", !.fetched = resp.Names]
    /\ UNCHANGED <<file, clock, prev>>

(* cache.SetNames(resp.Names); namesForToday(cache.NamesPerDay, day) *)
ShowNames ==
    /\ call.op = "Fetch"
    /\ call' = [call EXCEPT
                    !.op = "namesForToday",
                    !.shown = namesForToday(SetNames(ZeroCache, call.fetched).NamesPerDay,
                                            call.dom, call.noUnofficial)]
    /\ UNCHANGED <<file, clock, prev>>

ShowNext == ShowFetch \/ ShowNames

ShowSpec == ShowInit /\ [][ShowNext]_vars

----------------------------------------------------------------------------
(* Vocabulary of the properties *)

Count(steps, step) == Cardinality({i \in 1..Len(steps) : steps[i] = step})

IsRun == call.op = "resolve"

Loaded == call.out.loaded

(* the run got a cache with at least one day bucket from LoadCache *)
LoadedValid ==
    /\ IsRun /\ ~call.noCache /\ call.out.err # "load"
    /\ ~Loaded.NamesPerDay.nil
    /\ DOMAIN Loaded.NamesPerDay.m # {}

(* the run got a cache with no day bucket from LoadCache *)
LoadedEmpty ==
    /\ IsRun /\ ~call.noCache /\ call.out.err # "load"
    /\ (Loaded.NamesPerDay.nil \/ DOMAIN Loaded.NamesPerDay.m = {})

(* the start of the day that t lies in *)
DayStart(t) == CHOOSE d \in 0..t : d % DayLen = 0 /\ d <= t /\ t < d + DayLen

Fetched == IsRun /\ Count(call.out.steps, "fetch") > 0

(* the run left the file, and the cache in memory, as it found them *)
Untouched ==
    /\ file = call.pre
    /\ call.out.store = Loaded
    /\ Count(call.out.steps, "save") = 0
    /\ Count(call.out.steps, "mutate") = 0

(* the names of a list that fall on day d, in the order of the list *)
OnDay(names, d) == SelectSeq(names, LAMBDA n : n.Month = d.Month /\ n.Day = d.Day)

Bucketed(names) ==
    [nil |-> FALSE,
     m |-> [d \in {[Day |-> names[i].Day, Month |-> names[i].Month] : i \in 1..Len(names)}
                |-> OnDay(names, d)]]

----------------------------------------------------------------------------
(* C1: with no flag set and a loaded cache of at least one day bucket, the
   run fetches if and only if lastUpdated is strictly earlier than the start
   of the day of now; otherwise it returns the cached mapping unchanged, with
   no fetch and no save. *)
C1_FetchIffBeforeDayStart ==
    (LoadedValid /\ ~call.noFetch) =>
        /\ Fetched <=> Loaded.UpdatedAt < DayStart(call.now)
        /\ Loaded.UpdatedAt >= DayStart(call.now) =>
            /\ call.out.ret = Loaded.NamesPerDay
            /\ call.out.err = ErrNone
            /\ call.out.steps = <<"load">>
            /\ Untouched

(* a cache stamped exactly at the start of today is served without a fetch *)
C1_Witness ==
    /\ LoadedValid /\ ~call.noFetch
    /\ Loaded.UpdatedAt = DayStart(call.now)
    /\ ~Fetched

(* C2 as stated: whenever the fetch succeeds the run replaces the mapping,
   stamps it, persists exactly that store and returns the new mapping with no
   error. *)
C2_Original ==
    (Fetched /\ call.out.srv.status = "ok") =>
        /\ call.out.ret = Bucketed(SortNames(call.out.srv.names))
        /\ call.out.store.UpdatedAt = clock
        /\ call.out.store.ETag = call.out.srv.etag
        /\ call.out.err = ErrNone
        /\ file = EncodeCache(call.out.store)

(* C2, amended: when the fetch succeeds the run replaces the whole mapping by
   the fetched names bucketed by day, sets lastUpdated to the current time and
   the token to the fetched one and returns the new mapping; when the save
   succeeds too there is no error, the file holds exactly that store and
   loads back to the returned mapping; when the save fails the error is the
   save error. *)
C2_FetchSuccessReplacesAndPersists ==
    (Fetched /\ call.out.srv.status = "ok") =>
        /\ call.out.ret = Bucketed(SortNames(call.out.srv.names))
        /\ call.out.ret = call.out.store.NamesPerDay
        /\ call.out.store.UpdatedAt = clock
        /\ call.out.store.UpdatedAt >= call.now
        /\ call.out.store.ETag = call.out.srv.etag
        /\ call.out.err \in {ErrNone, "save"}
        /\ call.out.err = ErrNone =>
            /\ file = EncodeCache(call.out.store)
            /\ LoadCache(file).err = ErrNone
            /\ LoadCache(file).cache.NamesPerDay = call.out.ret

(* a cache holding Anna is replaced by a page without her, and saved *)
C2_Witness ==
    /\ Fetched /\ call.out.srv.status = "ok" /\ call.out.err = ErrNone
    /\ LoadedValid
    /\ DOMAIN Loaded.NamesPerDay.m # DOMAIN call.out.ret.m
    /\ DOMAIN call.out.ret.m # {}
    /\ Loaded.ETag # call.out.store.ETag

(* C3: a valid, outdated cache and the answer "not modified": the run returns
   the cached mapping with no error and saves nothing; mapping, token,
   lastUpdated and the file are as they were. *)
C3_NotModifiedKeepsCache ==
    (LoadedValid /\ Fetched /\ call.out.srv.status = "notmodified") =>
        /\ call.out.ret = Loaded.NamesPerDay
        /\ call.out.err = ErrNone
        /\ Untouched
        /\ LoadCache(file).cache = Loaded

C3_Witness ==
    /\ LoadedValid /\ Fetched /\ call.out.srv.status = "notmodified"
    /\ call.out.req = <<"abc">>
    /\ call.out.err = ErrNone

(* C4: when the fetch fails (any error but "not modified" on a valid cache)
   the run returns the mapping the loaded cache held together with a fetch
   error and neither changes nor saves the store. *)
C4_FetchFailureReturnsCache ==
    (Fetched /\ (call.out.srv.status = "failed"
                 \/ (call.out.srv.status = "notmodified" /\ ~LoadedValid))) =>
        /\ call.out.err = "fetch"
        /\ call.out.ret = Loaded.NamesPerDay
        /\ Untouched

(* a stale cache with names is returned in full next to the error *)
C4_Witness ==
    /\ LoadedValid /\ Fetched /\ call.out.srv.status = "failed"
    /\ call.out.err = "fetch"
    /\ Cardinality(DOMAIN call.out.ret.m) >= 1

(* C5: the request carries the stored token when the loaded cache is valid
   and the empty token when it is not, whatever token the file holds; so for
   a stored token that is not empty, the token sent is the stored one if and
   only if the cache is valid. *)
C5_TokenOnlyFromValidCache ==
    Fetched =>
        /\ Len(call.out.req) = 1
        /\ LoadedValid => call.out.req[1] = Loaded.ETag
        /\ ~LoadedValid => call.out.req[1] = ""
        /\ Loaded.ETag # "" => (call.out.req[1] = Loaded.ETag <=> LoadedValid)
        /\ call.pre.etag # "" => (call.out.req[1] = call.pre.etag <=> LoadedValid)

(* a loaded cache without buckets that has a token: the token is not sent *)
C5_Witness ==
    /\ Fetched /\ LoadedEmpty
    /\ Loaded.ETag = "abc"
    /\ call.out.req = <<"">>

(* C6: with skipCache and skipFetch both set the run fails with the
   configuration error, whatever the cache file is, before any load, fetch
   or save. *)
C6_BothFlagsConfigError ==
    (IsRun /\ call.noCache /\ call.noFetch) =>
        /\ call.out.err = "config"
        /\ call.out.ret = NilMap
        /\ call.out.steps = <<>>
        /\ file = call.pre

C6_Witness ==
    /\ IsRun /\ call.noCache /\ call.noFetch
    /\ call.out.err = "config"
    /\ call.pre.kind = "cache"
    /\ DOMAIN call.pre.namesPerDay.obj # {}

(* C7: with skipFetch set and a loaded cache of at least one day bucket the
   run returns the cached mapping with no error, no fetch and no save,
   however old lastUpdated is. *)
C7_NoFetchServesValidCache ==
    (LoadedValid /\ call.noFetch) =>
        /\ call.out.ret = Loaded.NamesPerDay
        /\ call.out.err = ErrNone
        /\ call.out.steps = <<"load">>
        /\ Untouched

(* a cache from before yesterday is served *)
C7_Witness ==
    /\ LoadedValid /\ call.noFetch
    /\ Loaded.UpdatedAt + DayLen < DayStart(call.now)
    /\ call.out.err = ErrNone

(* C8: with skipFetch set and no cache file, or a loaded cache without
   buckets, the run fails with the no-usable-data error, which is neither the
   configuration error nor a fetch error; it fetches nothing and creates no
   file. *)
C8_NoFetchNoDataError ==
    (LoadedEmpty /\ call.noFetch) =>
        /\ call.out.err = "nodata"
        /\ call.out.err \notin {"config", "fetch", "load", "save", ErrNone}
        /\ call.out.steps = <<"load">>
        /\ Untouched

C8_Witness ==
    /\ LoadedEmpty /\ call.noFetch
    /\ call.pre.kind = "absent"
    /\ file.kind = "absent"
    /\ call.out.err = "nodata"

(* C9: after a run with no flag that fetched at least one name and saved, the
   next run with no flag whose now lies in the same day is a pure cache hit:
   no fetch, no save, and the mapping the first run returned. *)
C9_SecondRunIsCacheHit ==
    (/\ IsRun /\ ~call.noCache /\ ~call.noFetch
     /\ prev.refreshed /\ ~prev.flags
     /\ DOMAIN prev.ret.m # {}
     /\ DayStart(call.now) = DayStart(prev.at)) =>
        /\ call.out.steps = <<"load">>
        /\ call.out.ret = prev.ret
        /\ call.out.err = ErrNone
        /\ file = call.pre

(* the second run comes later on the same day *)
C9_Witness ==
    /\ IsRun /\ ~call.noCache /\ ~call.noFetch
    /\ prev.refreshed /\ ~prev.flags
    /\ DOMAIN prev.ret.m # {}
    /\ DayStart(call.now) = DayStart(prev.at)
    /\ call.now > prev.at
    /\ ~Fetched

(* C10: a cache file with malformed content (truncated, corrupt, or of an
   unrecognized schema) loads as the empty store with no error, so that a
   run with no flag goes on to fetch. *)
C10_MalformedLoadsEmpty ==
    (IsRun /\ ~call.noCache /\ ~call.noFetch
     /\ call.pre.kind \in {"corrupt", "foreign"}) =>
        /\ LoadCache(call.pre) = [cache |-> ZeroCache, err |-> ErrNone]
        /\ call.out.err # "load"
        /\ Fetched

----------------------------------------------------------------------------
(* C11: when the fetch succeeds and the save fails, the run returns the
   freshly fetched mapping, neither the old one nor an empty one, together
   with a save error. *)
C11_SaveErrorReturnsFreshMapping ==
    (Fetched /\ call.out.srv.status = "ok" /\ call.out.err # ErrNone) =>
        /\ call.out.err = "save"
        /\ call.out.ret = Bucketed(SortNames(call.out.srv.names))
        /\ call.out.ret = call.out.store.NamesPerDay

(* an old cache of other days, a page with names, and a save that fails *)
C11_Witness ==
    /\ Fetched /\ call.out.srv.status = "ok" /\ call.out.err = "save"
    /\ LoadedValid
    /\ call.out.ret # Loaded.NamesPerDay
    /\ DOMAIN call.out.ret.m # {}

(* C12: a save is atomic for a reader: after a run that saved, whether the
   save went through or failed part-way, the cache file holds its complete
   previous content or the complete new content. *)
C12_SaveIsAtomic ==
    (IsRun /\ Count(call.out.steps, "save") > 0) =>
        \/ file = call.pre
        \/ file = EncodeCache(call.out.store)

(* C13: every store a run persists has at least one day bucket: a store
   with no bucket and a lastUpdated that is not zero is never written, also
   when the fetch succeeds with an empty list of names. *)
C13_PersistedStoreHasBucket ==
    (IsRun /\ Count(call.out.steps, "save") > 0 /\ call.out.err = ErrNone) =>
        ~(file.kind = "cache" /\ DOMAIN file.namesPerDay.obj = {} /\ file.updatedAt # 0)

(* Vocabulary of the properties of the package's operations (StoreSpec) *)

(* every name under key d of the map falls on day d *)
KeysMatch(nm) ==
    \A d \in DOMAIN nm.m : \A i \in 1..Len(nm.m[d]) :
        nm.m[d][i].Month = d.Month /\ nm.m[d][i].Day = d.Day

Range(seq) == {seq[i] : i \in 1..Len(seq)}

(* the day keys looked at: those of the names, and others *)
DayKeys == {[Day |-> d, Month |-> m] : d \in {1, 12, 31}, m \in {1, 12, 31}}

DayOf(n) == [Day |-> n.Day, Month |-> n.Month]

SavedOk == call.op = "SaveCache" /\ call.err = ErrNone

(* C14: in every store reached from the empty store by SetNames, AddNames,
   SaveCache, LoadCache and the stamping of a refresh, every name stored
   under a day key has the month and the day of the key; so has the store
   that the cache file loads to. *)
C14_BucketKeyInvariant ==
    /\ KeysMatch(call.store.NamesPerDay)
    /\ LoadCache(file).err = ErrNone => KeysMatch(LoadCache(file).cache.NamesPerDay)

(* a store with two buckets that came back from the file *)
C14_Witness ==
    /\ call.op = "LoadCache" /\ call.err = ErrNone
    /\ Cardinality(DOMAIN call.store.NamesPerDay.m) = 2
    /\ \E d \in DOMAIN call.store.NamesPerDay.m : d.Month = 12 /\ d.Day = 31

(* C15: every cache file written by SaveCache has a lastUpdated that is not
   zero: a store with the zero time is stamped with the current time, any
   other lastUpdated is written as it is. *)
C15_SavedFileIsStamped ==
    SavedOk =>
        /\ file.kind = "cache"
        /\ file.updatedAt # 0
        /\ call.store.UpdatedAt = 0 => file.updatedAt = clock
        /\ call.store.UpdatedAt # 0 => file.updatedAt = call.store.UpdatedAt

(* a store that was never stamped is saved *)
C15_Witness ==
    /\ SavedOk
    /\ call.store.UpdatedAt = 0
    /\ DOMAIN call.store.NamesPerDay.m # {}
    /\ file.updatedAt = clock

(* C16: after a SaveCache that succeeds, LoadCache gives a store with the
   same namesByDay (keys, names and their order), the same token, and a
   lastUpdated that is not earlier than the one passed to SaveCache. *)
C16_SaveLoadRoundTrip ==
    SavedOk =>
        /\ LoadCache(file).err = ErrNone
        /\ LoadCache(file).cache.NamesPerDay = call.store.NamesPerDay
        /\ LoadCache(file).cache.ETag = call.store.ETag
        /\ LoadCache(file).cache.UpdatedAt >= call.store.UpdatedAt

(* a stamped store with a token and names on two days is saved *)
C16_Witness ==
    /\ SavedOk
    /\ Cardinality(DOMAIN call.store.NamesPerDay.m) = 2
    /\ call.store.ETag = "xyz"
    /\ call.store.UpdatedAt # 0

(* C17: after SetNames(names), the selection of the day of each name of the
   list contains the name, the selection of any other day does not, and a
   day without names selects the empty list. *)
C17_SelectForDayFindsName ==
    call.op = "SetNames" =>
        /\ \A i \in 1..Len(call.names) :
            /\ call.names[i] \in Range(namesForToday(call.store.NamesPerDay,
                                                     DayOf(call.names[i]), FALSE))
            /\ \A d \in DayKeys \ {DayOf(call.names[i])} :
                call.names[i] \notin Range(namesForToday(call.store.NamesPerDay, d, FALSE))
        /\ \A d \in DayKeys :
            (\A i \in 1..Len(call.names) : DayOf(call.names[i]) # d) =>
                namesForToday(call.store.NamesPerDay, d, FALSE) = <<>>

(* names of two days are set in a store that held a name of the first day *)
C17_Witness ==
    /\ call.op = "SetNames"
    /\ call.names = <<Anna, Nya>>
    /\ DOMAIN call.before.NamesPerDay.m # {}
    /\ namesForToday(call.store.NamesPerDay, DayOf(Anna), FALSE) = <<Anna>>

(* C18: SetNames replaces the whole mapping: nothing of the mapping before
   is left, each bucket holds exactly the given names of its day in the
   order of the list; token and lastUpdated are as before. *)
C18_SetNamesReplacesAll ==
    call.op = "SetNames" =>
        /\ call.store.NamesPerDay = Bucketed(call.names)
        /\ call.store.ETag = call.before.ETag
        /\ call.store.UpdatedAt = call.before.UpdatedAt

(* a stamped store with Anna and Nya is set to Nya and Erik *)
C18_Witness ==
    /\ call.op = "SetNames"
    /\ call.names = <<Nya, Erik>>
    /\ Cardinality(DOMAIN call.before.NamesPerDay.m) = 2
    /\ call.before.ETag = "abc"
    /\ call.before.UpdatedAt # 0
    /\ call.store.NamesPerDay.m[DayOf(Erik)] = <<Nya, Erik>>

(* C19: a cache file that is there and cannot be read: the load fails and a
   run with skipCache unset ends with that error, returns no mapping, makes
   no fetch and writes nothing. *)
C19_UnreadableFileAborts ==
    (IsRun /\ ~call.noCache /\ call.pre.kind = "unreadable") =>
        /\ call.out.err = "load"
        /\ call.out.ret = NilMap
        /\ call.out.steps = <<"load">>
        /\ file = call.pre

C19_Witness ==
    /\ IsRun /\ ~call.noCache /\ ~call.noFetch
    /\ call.pre.kind = "unreadable"
    /\ call.out.err = "load"
    /\ file.kind = "unreadable"

(* C20: no cache file: the load gives the empty store (no bucket, zero
   lastUpdated, empty token) and no error, and a run with no flag goes on
   to fetch. *)
C20_AbsentFileLoadsEmpty ==
    (IsRun /\ ~call.noCache /\ call.pre.kind = "absent") =>
        /\ call.out.err # "load"
        /\ Loaded = [ETag |-> "", UpdatedAt |-> 0, NamesPerDay |-> [nil |-> TRUE, m |-> <<>>]]
        /\ call.out.steps[1] = "load"
        /\ ~call.noFetch => (Fetched /\ call.out.req = <<"">>)

C20_Witness ==
    /\ IsRun /\ ~call.noCache /\ ~call.noFetch
    /\ call.pre.kind = "absent"
    /\ Fetched
    /\ call.out.err = ErrNone
    /\ file.kind = "cache"

----------------------------------------------------------------------------
(* C21: ClearCache on a file that is there removes it and returns success
   (or, when the removal itself is refused, that failure, and the file
   stays); on no file it returns ErrCacheAlreadyCleared, which is neither
   success nor that failure.  So a ClearCache right after one that removed
   the file returns ErrCacheAlreadyCleared, and a load after a ClearCache
   that removed the file gives the empty store. *)
C21_ClearRemovesOrAlreadyCleared ==
    /\ call.op = "clear" =>
        /\ call.pre.kind = "absent" =>
            /\ call.out.err = "ErrCacheAlreadyCleared"
            /\ call.out.err \notin {ErrNone, "remove"}
            /\ file = call.pre
        /\ call.pre.kind # "absent" =>
            /\ call.out.err \in {ErrNone, "remove"}
            /\ call.out.err = ErrNone <=> file.kind = "absent"
            /\ call.out.err = "remove" => file = call.pre
        /\ call.out.err = ErrNone =>
            LoadCache(file) = [cache |-> ZeroCache, err |-> ErrNone]
        /\ prev.was = "clear" => call.out.err = "ErrCacheAlreadyCleared"
    /\ (IsRun /\ ~call.noCache /\ prev.was = "clear") =>
        /\ call.out.err # "load"
        /\ Loaded = ZeroCache

(* a cache file with names is removed, and ClearCache is called again *)
C21_Witness ==
    /\ call.op = "clear"
    /\ prev.was = "clear"
    /\ call.out.err = "ErrCacheAlreadyCleared"
    /\ file.kind = "absent"

StepRank(step) ==
    CHOOSE i \in 1..4 : <<"load", "fetch", "mutate", "save">>[i] = step

(* C22: in one run the cache file is loaded at most once, at most one fetch
   is made, the store is changed at most once and saved at most once, in the
   order load, fetch, mutate, save; a save comes only after a fetch that
   succeeded, and a run never deletes the cache file. *)
C22_StepsOnceAndInOrder ==
    IsRun =>
        /\ \A step \in {"load", "fetch", "mutate", "save"} :
            Count(call.out.steps, step) <= 1
        /\ \A i, j \in 1..Len(call.out.steps) :
            i < j => StepRank(call.out.steps[i]) < StepRank(call.out.steps[j])
        /\ Count(call.out.steps, "save") > 0 =>
            /\ Count(call.out.steps, "fetch") = 1
            /\ call.out.srv.status = "ok"
        /\ Count(call.out.steps, "mutate") > 0 => call.out.srv.status = "ok"
        /\ call.out.store # Loaded => Count(call.out.steps, "mutate") = 1
        /\ call.pre.kind # "absent" => file.kind # "absent"

(* a run that does all four steps on a cache file that holds names *)
C22_Witness ==
    /\ IsRun
    /\ call.out.steps = <<"load", "fetch", "mutate", "save">>
    /\ call.pre.kind = "cache"
    /\ DOMAIN call.pre.namesPerDay.obj # {}
    /\ call.out.err = ErrNone

(* C23: the names shown for a day with --no-unofficial are exactly the names
   of that day whose classification is not UNOFFICIAL, names of any other or
   of no known classification included, in the order they had; without the
   flag they are all the names of that day in the order Fetch delivered
   them. *)
C23_OfficialOnlyFilter ==
    call.op = "namesForToday" =>
        LET ofDay == OnDay(call.fetched, call.dom)
        IN  /\ ~call.noUnofficial => call.shown = ofDay
            /\ call.noUnofficial =>
                call.shown = SelectSeq(ofDay, LAMBDA n : n.TypeOfName # "UNOFFICIAL")

(* Erik, Nya and a name of unknown classification on one day, filtered *)
C23_Witness ==
    /\ call.op = "namesForToday"
    /\ call.noUnofficial
    /\ call.dom = NewDoM(1, 1)
    /\ call.fetched = <<Erik, Nya, Tor>>
    /\ call.shown = <<Erik, Tor>>

(* C24: when the run of loadOrFetchNames returns an error the command exits
   with code 1 and prints the error last; when a mapping came with the
   error, the names of the day asked for are printed before it, after a
   warning; when no mapping came, no names are printed.  With no error the
   names are printed and the exit code is 0.  The configuration, load and
   no-usable-data errors come with no mapping, the save error with one. *)
C24_ErrorsExitNonZero ==
    IsRun =>
        \A dom \in ShowDays, noUnofficial \in BOOLEAN :
            LET run == RunE(call.out.ret, call.out.err, dom, noUnofficial)
                names == namesForToday(call.out.ret, dom, noUnofficial)
            IN  /\ call.out.err # ErrNone =>
                    /\ run.exit # 0
                    /\ run.lines[Len(run.lines)] =
                            [line |-> "error", names |-> <<>>, err |-> call.out.err]
                    /\ ~call.out.ret.nil =>
                        /\ Len(run.lines) = 3
                        /\ run.lines[1].line = "status"
                        /\ run.lines[2].line = "names" /\ run.lines[2].names = names
                    /\ call.out.ret.nil =>
                        \A i \in 1..Len(run.lines) : run.lines[i].line # "names"
                /\ call.out.err = ErrNone =>
                    /\ run.exit = 0
                    /\ Len(run.lines) = 1
                    /\ run.lines[1].line = "names" /\ run.lines[1].names = names
                /\ call.out.err \in {"config", "load", "nodata"} => call.out.ret.nil
                /\ call.out.err = "save" => ~call.out.ret.nil

(* the fetch fails and the names of an old cache are shown with the error *)
C24_Witness ==
    /\ IsRun
    /\ call.out.err = "fetch"
    /\ LoadedValid
    /\ RunE(call.out.ret, call.out.err, NewDoM(1, 1), FALSE).lines[2].names # <<>>
    /\ RunE(call.out.ret, call.out.err, NewDoM(1, 1), FALSE).exit = 1

(* the two digits of a number below 100 *)
TwoDigits(n) == <<DigitChar[(n \div 10) + 1], DigitChar[(n % 10) + 1]>>

(* C25: the text of a day key is the zero-padded MM-DD; for every month
   1..12 and day 1..31 the text scans back to the key, and two keys have the
   same text if and only if they are the same key. *)
C25_DoMTextRoundTrip ==
    /\ call.op \in {"MarshalText", "UnmarshalText"} =>
        /\ call.text = TwoDigits(call.dom.Month) \o <<"-">> \o TwoDigits(call.dom.Day)
        /\ \A k \in DoMs : MarshalText(k) = call.text <=> k = call.dom
    /\ call.op = "UnmarshalText" =>
        /\ call.back.ok
        /\ call.back.dom = call.dom
        /\ call.back.dom.Month = call.dom.Month /\ call.back.dom.Day = call.dom.Day

(* the ninth of February: both numbers are padded *)
C25_Witness ==
    /\ call.op = "UnmarshalText"
    /\ call.dom = [Day |-> 9, Month |-> 2]
    /\ call.text = <<"0", "2", "-", "0", "9">>
    /\ call.back.ok

(* C26: "not modified" does not make the cache fresh: after a run that
   served a valid outdated cache on "not modified", the file still holds
   the old lastUpdated, earlier than the start of the day, so that the
   cache is outdated at any later time; the next run with no flag fetches
   again, with the same token, and is no cache hit. *)
C26_NotModifiedStaysOutdated ==
    /\ (LoadedValid /\ Fetched /\ call.out.srv.status = "notmodified") =>
        /\ file.kind = "cache"
        /\ file.updatedAt = Loaded.UpdatedAt
        /\ file.updatedAt < DayStart(call.now)
        /\ \A t \in call.now..(MaxTime + 1) : file.updatedAt < DayStart(t)
    /\ (IsRun /\ ~call.noCache /\ ~call.noFetch /\ prev.was = "notmodified") =>
        /\ LoadedValid
        /\ Loaded.UpdatedAt < DayStart(call.now)
        /\ Fetched
        /\ call.out.req = <<prev.token>>
        /\ call.out.req = <<Loaded.ETag>>

(* two runs in a row are answered "not modified" at the same instant *)
C26_Witness ==
    /\ IsRun /\ ~call.noCache /\ ~call.noFetch
    /\ prev.was = "notmodified"
    /\ prev.token = "abc"
    /\ Fetched
    /\ call.out.srv.status = "notmodified"
    /\ call.out.err = ErrNone

(* C27: a run changes the cache file only when its fetch succeeded: on the
   configuration error, a load failure, the no-usable-data error, a cache
   hit, --no-fetch with a valid cache, "not modified" and a fetch failure
   the file is after the run what it was before. *)
C27_FileChangesOnlyOnFetchSuccess ==
    /\ (IsRun /\ ~(Fetched /\ call.out.srv.status = "ok")) =>
        /\ file = call.pre
        /\ Count(call.out.steps, "save") = 0
    /\ (IsRun /\ file # call.pre) =>
        /\ Fetched
        /\ call.out.srv.status = "ok"
        /\ call.out.steps[Len(call.out.steps)] = "save"

(* --no-fetch on a file of another schema: no usable data, the file stays *)
C27_Witness ==
    /\ IsRun
    /\ call.out.err = "nodata"
    /\ call.pre.kind = "foreign"
    /\ file = call.pre

(* C28: with --no-cache and without --no-fetch the run does not read the
   cache file and fetches with the empty token, also when the file holds a
   fresh valid cache; when the fetch succeeds it saves the new store, which
   has nothing of the file, and a save that goes through leaves exactly that
   store in the file; when the fetch fails it returns the empty mapping
   with the error, nothing of the file. *)
C28_NoCacheNeverReads ==
    (IsRun /\ call.noCache /\ ~call.noFetch) =>
        /\ Count(call.out.steps, "load") = 0
        /\ Loaded = ZeroCache
        /\ Fetched
        /\ call.out.req = <<"">>
        /\ call.out.srv.status = "ok" =>
            /\ call.out.steps = <<"fetch", "mutate", "save">>
            /\ call.out.ret = Bucketed(SortNames(call.out.srv.names))
            /\ call.out.store.NamesPerDay = call.out.ret
            /\ call.out.err \in {ErrNone, "save"}
            /\ call.out.err = ErrNone => file = EncodeCache(call.out.store)
        /\ call.out.srv.status # "ok" =>
            /\ call.out.err = "fetch"
            /\ call.out.ret = NilMap
            /\ file = call.pre

(* a fresh cache with names on two days is overwritten by a page of one *)
C28_Witness ==
    /\ IsRun /\ call.noCache /\ ~call.noFetch
    /\ call.pre.kind = "cache"
    /\ Cardinality(DOMAIN call.pre.namesPerDay.obj) = 2
    /\ call.pre.updatedAt >= DayStart(call.now)
    /\ call.out.srv.names = <<Erik>>
    /\ call.out.err = ErrNone
    /\ file # call.pre
    /\ Cardinality(DOMAIN file.namesPerDay.obj) = 1

(* C29: a loaded store with no day bucket is treated like no cache file,
   whatever its lastUpdated and token: with no flag the run fetches with the
   empty token, also when lastUpdated is of today, and with --no-fetch it
   fails with the no-usable-data error; steps, request and error are those
   of the same run on no file. *)
C29_EmptyStoreLikeAbsentFile ==
    LoadedEmpty =>
        LET absent == loadOrFetchNames(AbsentFile, FALSE, call.noFetch, call.now,
                                       call.now, call.out.srv, "ok")
        IN  /\ ~call.noFetch =>
                /\ Fetched
                /\ call.out.req = <<"">>
            /\ call.noFetch =>
                /\ call.out.err = "nodata"
                /\ ~Fetched
            /\ call.out.steps = absent.steps
            /\ call.out.req = absent.req
            /\ call.out.err # "save" => call.out.err = absent.err

(* a file with no bucket, a token and a lastUpdated of today *)
C29_Witness ==
    /\ LoadedEmpty /\ ~call.noFetch
    /\ call.pre.kind = "cache"
    /\ Loaded.ETag # ""
    /\ Loaded.UpdatedAt # 0
    /\ Loaded.UpdatedAt >= DayStart(call.now)
    /\ Fetched
    /\ call.out.req = <<"">>

(* C30: the answer "not modified" is taken without error only when the
   loaded cache is valid; when it is not (no bucket, or --no-cache), the run
   returns a fetch error with the empty mapping of the cache and saves
   nothing. *)
C30_NotModifiedNeedsValidCache ==
    (Fetched /\ call.out.srv.status = "notmodified") =>
        /\ Fetch([ETag |-> call.out.req[1]], call.out.srv).err = ErrHTTPNotModified
        /\ call.out.err = ErrNone <=> LoadedValid
        /\ ~LoadedValid =>
            /\ call.out.err = "fetch"
            /\ call.out.ret = Loaded.NamesPerDay
            /\ MapLen(call.out.ret) = 0
            /\ file = call.pre
            /\ Count(call.out.steps, "save") = 0
            /\ Count(call.out.steps, "mutate") = 0

(* --no-cache next to a cache file with names, and the answer "not modified" *)
C30_Witness ==
    /\ Fetched /\ call.out.srv.status = "notmodified"
    /\ call.noCache
    /\ call.pre.kind = "cache"
    /\ DOMAIN call.pre.namesPerDay.obj # {}
    /\ call.out.err = "fetch"
    /\ call.out.ret = NilMap

====
